---- MODULE Spec2Model ----
(***************************************************************************)
(* Model of tensorflow/c/eager/c_api_debug.cc: the computation of the      *)
(* on-device shape of a tensor handle (TFE_TensorHandleTensorDebugInfo).   *)
(*                                                                         *)
(* One call of TensorHandleInterface::TensorDebugInfo is followed block by *)
(* block.  The tensor handle, the XLA device's padded-shape function and   *)
(* the verbose-logging switch are outside the file: what they answer is    *)
(* drawn from bounded sets at the point where the code asks them.          *)
(***************************************************************************)
EXTENDS Integers, Sequences, FiniteSets

\* ------------------------------------------------------------------ bounds

\* Largest rank of a logical shape and of a flat device shape.
MaxRank == 3

\* Dimension sizes the handle and the device may report.
DimSizes == {2, 3, 4}

\* ---------------------------------------------------------------- statuses

OK == [code |-> "OK", msg |-> ""]

IsOk(s) == s.code = "OK"

\* What the caller's status may hold when the call starts.
StaleStatus == [code |-> "UNKNOWN", msg |-> "left over from an earlier call"]

EntryStatuses == {OK, StaleStatus}

\* Errors of the collaborators outside the file.
TensorErrors ==
    { [code |-> "INTERNAL", msg |-> "Tensor: handle is remote"],
      [code |-> "CANCELLED", msg |-> "Tensor: producing op failed"] }

ShapeFnErrors ==
    { [code |-> "INVALID_ARGUMENT", msg |-> "PaddedShapeFn: not an XlaTensor"],
      [code |-> "UNAVAILABLE", msg |-> "PaddedShapeFn: no device memory"] }

NumDimsError == [code |-> "INTERNAL", msg |-> "NumDims: handle not resolved"]

DimError == [code |-> "OUT_OF_RANGE", msg |-> "Dim: handle not resolved"]

\* tensorflow::errors::InvalidArgument(text, padded_shape.DebugString())
InvalidArgument(text) == [code |-> "INVALID_ARGUMENT", msg |-> text]

TupleSizeMsg == "XlaTensors should only contain tuples of size 2. Shape: "

NestedTupleMsg == "XlaTensors should not contain nested tuples. Shape: "

SubshapeMsg == "Subshapes of XlaTensors should be the same. Shape: "

\* ------------------------------------------------------------- xla::Shape

\* An array shape: dimension sizes and the layout's minor_to_major list.
MakeShape(dims, m2m) ==
    [is_tuple |-> FALSE, dimensions |-> dims, minor_to_major |-> m2m,
     tuple_shapes |-> <<>>]

\* A tuple shape: it has no dimensions of its own.
MakeTupleShape(elems) ==
    [is_tuple |-> TRUE, dimensions |-> <<>>, minor_to_major |-> <<>>,
     tuple_shapes |-> elems]

\* xla::Shape padded_shape;  (default constructed)
DefaultShape == MakeShape(<<>>, <<>>)

IsTuple(s) == s.is_tuple

TupleElementCount(s) == Len(s.tuple_shapes)

\* index is 0-based as in the source
GetTupleElementShape(s, index) == s.tuple_shapes[index + 1]

\* xla::ShapeUtil::Equal: same dimensions and same layout
ShapeEqual(a, b) == a = b

dimensions_size(s) == Len(s.dimensions)

\* padded_shape.dimensions(i): reading past the end is undefined, the value
\* read is then ub
dimensions(s, i, ub) ==
    IF i + 1 \in DOMAIN s.dimensions THEN s.dimensions[i + 1] ELSE ub

\* padded_shape.layout().minor_to_major(i)
minor_to_major(s, i, ub) ==
    IF i + 1 \in DOMAIN s.minor_to_major THEN s.minor_to_major[i + 1] ELSE ub

\* Values an out-of-range read may produce.
UBValues == {0, 9}

\* ------------------------------------------------- what the device reports

SeqsOfLen(S, n) == [1..n -> S]

\* The minor_to_major lists of a valid layout of rank r: the permutations
\* of 0..r-1.
Permutations(r) ==
    { p \in [1..r -> 0..(r - 1)] :
        \A i \in 1..r : \A j \in 1..r : p[i] = p[j] => i = j }

\* Rank 1 tensors might not have minor_to_major set (source line 134): for
\* rank 1 the list may be empty, valid or hold anything.
Layouts(r) ==
    IF r > 1 THEN Permutations(r)
    ELSE IF r = 1 THEN {<<>>, <<0>>, <<1>>}
    ELSE {<<>>}

FlatShapesOfRank(r) ==
    { MakeShape(d, l) : d \in SeqsOfLen(DimSizes, r), l \in Layouts(r) }

FlatShapes == UNION { FlatShapesOfRank(r) : r \in 0..MaxRank }

\* Tuples that stand for a 64 bit value: two array shapes.
NestedElems ==
    { MakeTupleShape(<<MakeShape(<<2>>, <<0>>), MakeShape(<<2>>, <<0>>)>>),
      MakeTupleShape(<<>>) }

TupleElems ==
    UNION { FlatShapesOfRank(r) : r \in 0..(MaxRank - 1) } \cup NestedElems

\* The second element of a pair: the first one again, or one of these.
PairPartners ==
    { MakeShape(<<3, 2>>, <<1, 0>>), MakeShape(<<2, 3>>, <<0, 1>>),
      MakeShape(<<4>>, <<>>), MakeShape(<<>>, <<>>) } \cup NestedElems

TupleShapes ==
    { MakeTupleShape(<<a, b>>) : a \in TupleElems, b \in PairPartners }
    \cup { MakeTupleShape(<<a, a>>) : a \in TupleElems }
    \cup { MakeTupleShape(<<a>>) : a \in PairPartners }
    \cup { MakeTupleShape(<<a, a, b>>) : a \in PairPartners, b \in PairPartners }
    \cup { MakeTupleShape(<<>>) }

\* Everything a PaddedShapeFn may hand back.
DeviceShapes == FlatShapes \cup TupleShapes

\* ------------------------------------------------- what the handle reports

\* A tensor handle as this file sees it: the status of Tensor(), the status
\* of NumDims(), the logical shape, and the dimension whose lookup fails
\* (0: none; k: Dim(k-1)).
Handles ==
    { [tensor_status |-> t, num_dims_status |-> NumDimsError, shape |-> <<>>,
       bad_dim |-> 0] : t \in {OK} \cup TensorErrors }
    \cup UNION { { [tensor_status |-> t, num_dims_status |-> OK, shape |-> d,
                    bad_dim |-> b] :
                     t \in {OK} \cup TensorErrors,
                     d \in SeqsOfLen(DimSizes, r), b \in 0..r } :
                 r \in 0..MaxRank }

\* On an XLA device the handle's logical shape is read for a log line only:
\* the handles tried there have rank at most 1.
XlaHandles == { h \in Handles : Len(h.shape) <= 1 }

\* handle_->Tensor(&tensor)
Tensor(h) == h.tensor_status

\* handle.NumDims(&rank): rank keeps its initial -1 on failure
NumDims(h) ==
    [status |-> h.num_dims_status,
     rank |-> IF IsOk(h.num_dims_status) THEN Len(h.shape) ELSE -1]

\* handle.Dim(i, &dim), i 0-based
Dim(h, i) ==
    IF h.bad_dim = i + 1
    THEN [status |-> DimError, dim |-> 0]
    ELSE [status |-> OK, dim |-> h.shape[i + 1]]

\* ------------------------------------------------------ TensorShapeAsVector

\* Variant: a failed Dim lookup empties the vector before returning.
RECURSIVE ShapeLoop_ClearOnError(_, _, _, _)
ShapeLoop_ClearOnError(h, i, rank, shape) ==
    IF i < rank
    THEN LET r == Dim(h, i)
         IN IF ~IsOk(r.status)
            THEN [shape |-> <<>>, status |-> r.status, dim_calls |-> i + 1]
            ELSE ShapeLoop_ClearOnError(h, i + 1, rank, Append(shape, r.dim))
    ELSE [shape |-> shape, status |-> OK, dim_calls |-> i]

\* Variant: the loop does not return on a failed Dim lookup; the status is
\* the one the last lookup wrote.
RECURSIVE ShapeLoopNoBreakFrom(_, _, _, _, _)
ShapeLoopNoBreakFrom(h, i, rank, shape, last) ==
    IF i < rank
    THEN LET r == Dim(h, i)
         IN ShapeLoopNoBreakFrom(h, i + 1, rank, Append(shape, r.dim), r.status)
    ELSE [shape |-> shape, status |-> last, dim_calls |-> i]

ShapeLoop_NoBreak(h, i, rank, shape) ==
    ShapeLoopNoBreakFrom(h, i, rank, shape, OK)

\* The for loop of TensorShapeAsVector from index i on; shape holds what
\* was pushed so far.
RECURSIVE ShapeLoop(_, _, _, _)
ShapeLoop(h, i, rank, shape) ==
    IF i < rank
    THEN LET r == Dim(h, i)
         IN IF ~IsOk(r.status)
            THEN [shape |-> shape, status |-> r.status, dim_calls |-> i + 1]
            ELSE ShapeLoop(h, i + 1, rank, Append(shape, r.dim))
    ELSE [shape |-> shape, status |-> OK, dim_calls |-> i]

\* Variant: the loop starts at dimension 1.
TensorShapeAsVector_SkipFirst(h) ==
    LET n == NumDims(h)
    IN IF ~IsOk(n.status)
       THEN [shape |-> <<>>, status |-> n.status, dim_calls |-> 0]
       ELSE ShapeLoop(h, 1, n.rank, <<>>)

\* std::vector<int64> TensorShapeAsVector(handle, status): the vector
\* returned, the status written, and the number of Dim lookups made.
TensorShapeAsVector(h) ==
    LET n == NumDims(h)
    IN IF ~IsOk(n.status)
       THEN [shape |-> <<>>, status |-> n.status, dim_calls |-> 0]
       ELSE ShapeLoop(h, 0, n.rank, <<>>)

\* ------------------------------------------------------ dimension reordering

Read(field, index) == [field |-> field, index |-> index]

\* Variant: the dimensions come out minor-most first.
RECURSIVE ReorderLoop_MinorFirst(_, _, _, _, _)
ReorderLoop_MinorFirst(s, i, dev_dims, reads, ub) ==
    IF i >= 0
    THEN LET dim_index == minor_to_major(s, i, ub)
         IN ReorderLoop_MinorFirst(s, i - 1,
                        <<dimensions(s, dim_index, ub)>> \o dev_dims,
                        reads \cup { Read("minor_to_major", i),
                                     Read("dimensions", dim_index) },
                        ub)
    ELSE [dev_dims |-> dev_dims, reads |-> reads]

\* for (int i = rank - 1; i >= 0; --i): dev_dims and the entries read
RECURSIVE ReorderLoop(_, _, _, _, _)
ReorderLoop(s, i, dev_dims, reads, ub) ==
    IF i >= 0
    THEN LET dim_index == minor_to_major(s, i, ub)
         IN ReorderLoop(s, i - 1,
                        Append(dev_dims, dimensions(s, dim_index, ub)),
                        reads \cup { Read("minor_to_major", i),
                                     Read("dimensions", dim_index) },
                        ub)
    ELSE [dev_dims |-> dev_dims, reads |-> reads]

\* Variant: rank 1 goes through the layout like every other rank.
DevDims_NoFastPath(s, ub) ==
    ReorderLoop(s, dimensions_size(s) - 1, <<>>, {}, ub)

\* Variant: rank 0 takes the rank 1 path and reads dimensions(0).
DevDims_FastPathLE1(s, ub) ==
    LET rank == dimensions_size(s)
    IN IF rank <= 1
       THEN [dev_dims |-> <<dimensions(s, 0, ub)>>,
             reads |-> { Read("dimensions", 0) }]
       ELSE ReorderLoop(s, rank - 1, <<>>, {}, ub)

\* Source lines 130-141: the device dimensions of a shape, major to minor.
DevDims(s, ub) ==
    LET rank == dimensions_size(s)
    IN IF rank = 1
       THEN [dev_dims |-> <<dimensions(s, 0, ub)>>,
             reads |-> { Read("dimensions", 0) }]
       ELSE ReorderLoop(s, rank - 1, <<>>, {}, ub)

\* -------------------------------------------------------- TFE_TensorDebugInfo

NullInfo == [is_null |-> TRUE, dev_dims |-> <<>>]

\* new TFE_TensorDebugInfo(dev_dims)
NewInfo(dev_dims) == [is_null |-> FALSE, dev_dims |-> dev_dims]

\* TFE_TensorDebugInfoOnDeviceNumDims
OnDeviceNumDims(info) == Len(info.dev_dims)

\* TFE_TensorDebugInfoOnDeviceDim, dim_index 0-based
OnDeviceDim(info, dim_index) == info.dev_dims[dim_index + 1]

\* ----------------------------------------------------- tuple normalization

\* Variant: the two elements are not compared.
NormalizedShape_NoEqualCheck(s) ==
    IF IsTuple(s)
    THEN IF TupleElementCount(s) # 2
         THEN [status |-> InvalidArgument(TupleSizeMsg), shape |-> s]
         ELSE LET shape0 == GetTupleElementShape(s, 0)
                  shape1 == GetTupleElementShape(s, 1)
              IN IF IsTuple(shape0) \/ IsTuple(shape1)
                 THEN [status |-> InvalidArgument(NestedTupleMsg), shape |-> s]
                 ELSE [status |-> OK, shape |-> shape0]
    ELSE [status |-> OK, shape |-> s]

\* Variant: padded_shape = shape0 is missing, the tuple is kept.
NormalizedShape_KeepTuple(s) ==
    IF IsTuple(s)
    THEN IF TupleElementCount(s) # 2
         THEN [status |-> InvalidArgument(TupleSizeMsg), shape |-> s]
         ELSE LET shape0 == GetTupleElementShape(s, 0)
                  shape1 == GetTupleElementShape(s, 1)
              IN IF IsTuple(shape0) \/ IsTuple(shape1)
                 THEN [status |-> InvalidArgument(NestedTupleMsg), shape |-> s]
                 ELSE IF ~ShapeEqual(shape0, shape1)
                 THEN [status |-> InvalidArgument(SubshapeMsg), shape |-> s]
                 ELSE [status |-> OK, shape |-> s]
    ELSE [status |-> OK, shape |-> s]

\* Source lines 94-128: the status written and the shape kept. A tuple of
\* two equal array shapes stands for one of them; any other tuple is an
\* error and the shape is left as it was.
NormalizedShape(s) ==
    IF IsTuple(s)
    THEN IF TupleElementCount(s) # 2
         THEN [status |-> InvalidArgument(TupleSizeMsg), shape |-> s]
         ELSE LET shape0 == GetTupleElementShape(s, 0)
                  shape1 == GetTupleElementShape(s, 1)
              IN IF IsTuple(shape0) \/ IsTuple(shape1)
                 THEN [status |-> InvalidArgument(NestedTupleMsg), shape |-> s]
                 ELSE IF ~ShapeEqual(shape0, shape1)
                 THEN [status |-> InvalidArgument(SubshapeMsg), shape |-> s]
                 ELSE [status |-> OK, shape |-> shape0]
    ELSE [status |-> OK, shape |-> s]

\* Variant: the status of the logging-only lookup is left in place.
StatusAfterLogging_Keep(s) == s

\* Source lines 84-87: the status after the logging-only lookup wrote s
StatusAfterLogging(s) == IF ~IsOk(s) THEN OK ELSE s

\* Variant: the status is not tested before the container is made.
ReturnedInfo_Always(r) == NewInfo(r.shape)

\* Source lines 150-153: what is returned after TensorShapeAsVector gave r
ReturnedInfo(r) == IF ~IsOk(r.status) THEN NullInfo ELSE NewInfo(r.shape)

\* ------------------------------------------------------------------ state

VARIABLES
    pc,            \* where the call is: "start", "device", "padded",
                   \* "logged", "normalized", "done"
    is_xla,        \* xla_device != nullptr (built with XLA, handle on an XlaDevice)
    vlog_on,       \* VLOG_IS_ON(3)
    handle,        \* *handle_, the tensor handle the call is made on
    status,        \* *status, the caller's status object
    padded_shape,  \* the local padded_shape
    shape_fn_status, \* what shape_fn returned (code "none": not called)
    shape_fn_out,  \* what shape_fn wrote to padded_shape
    lookup,        \* what TensorShapeAsVector returned on the non-XLA path
    log_status,    \* what the logging-only lookup wrote (code "none": not made)
    result,        \* the value returned: a TFE_TensorDebugInfo or nullptr
    calls,         \* the stages invoked so far, in order
    reads          \* the entries of padded_shape the reordering read

vars ==
    <<pc, is_xla, vlog_on, handle, status, padded_shape, shape_fn_status,
      shape_fn_out, lookup, log_status, result, calls, reads>>

NoLookup == [shape |-> <<>>, status |-> OK, dim_calls |-> 0]

NotCalled == [code |-> "none", msg |-> ""]

Init ==
    /\ pc = "start"
    /\ is_xla \in BOOLEAN
    /\ vlog_on \in BOOLEAN
    /\ handle \in (IF is_xla THEN XlaHandles ELSE Handles)
    /\ status \in EntryStatuses
    /\ padded_shape = DefaultShape
    /\ shape_fn_status = NotCalled
    /\ shape_fn_out = DefaultShape
    /\ lookup = NoLookup
    /\ log_status = NotCalled
    /\ result = NullInfo
    /\ calls = <<>>
    /\ reads = {}

\* Source lines 62-66: *status = handle_->Tensor(&tensor)
ResolveTensor ==
    /\ pc = "start"
    /\ calls' = Append(calls, "Tensor")
    /\ status' = Tensor(handle)
    /\ IF ~IsOk(status')
       THEN /\ result' = NullInfo
            /\ pc' = "done"
       ELSE /\ pc' = "device"
            /\ UNCHANGED result
    /\ UNCHANGED <<is_xla, vlog_on, handle, padded_shape, shape_fn_status,
                   shape_fn_out, lookup, log_status, reads>>

\* Source lines 69-81: the handle is on an XLA device,
\* *status = shape_fn(*tensor, &padded_shape)
PaddedShapeFn ==
    /\ pc = "device"
    /\ is_xla
    /\ calls' = Append(calls, "PaddedShapeFn")
    /\ \E s \in {OK} \cup ShapeFnErrors :
         /\ shape_fn_status' = s
         /\ status' = s
         /\ IF ~IsOk(s)
            THEN /\ result' = NullInfo
                 /\ pc' = "done"
                 /\ UNCHANGED <<padded_shape, shape_fn_out>>
            ELSE /\ \E out \in DeviceShapes :
                      /\ padded_shape' = out
                      /\ shape_fn_out' = out
                 /\ pc' = "padded"
                 /\ UNCHANGED result
    /\ UNCHANGED <<is_xla, vlog_on, handle, lookup, log_status, reads>>

\* Source lines 82-92: the logical shape is looked up for the log line only
VlogShape ==
    /\ pc = "padded"
    /\ IF vlog_on
       THEN LET shape_to_log == TensorShapeAsVector(handle)
            IN /\ calls' = Append(calls, "LogShape")
               /\ log_status' = shape_to_log.status
               /\ status' = StatusAfterLogging(shape_to_log.status)
       ELSE UNCHANGED <<calls, log_status, status>>
    /\ pc' = "logged"
    /\ UNCHANGED <<is_xla, vlog_on, handle, padded_shape, shape_fn_status,
                   shape_fn_out, lookup, result, reads>>

\* Source lines 94-128: the tuple checks
NormalizeTuple ==
    /\ pc = "logged"
    /\ LET n == NormalizedShape(padded_shape)
       IN /\ calls' = IF IsTuple(padded_shape)
                      THEN Append(calls, "TupleCheck")
                      ELSE calls
          /\ padded_shape' = n.shape
          /\ IF ~IsOk(n.status)
             THEN /\ status' = n.status
                  /\ result' = NullInfo
                  /\ pc' = "done"
             ELSE /\ pc' = "normalized"
                  /\ UNCHANGED <<status, result>>
    /\ UNCHANGED <<is_xla, vlog_on, handle, shape_fn_status, shape_fn_out,
                   lookup, log_status, reads>>

\* Source lines 130-143: reorder, *status = OK, return the container
ReorderDims ==
    /\ pc = "normalized"
    /\ calls' = Append(calls, "Reorder")
    /\ \E ub \in UBValues :
         LET r == DevDims(padded_shape, ub)
         IN /\ reads' = r.reads
            /\ result' = NewInfo(r.dev_dims)
    /\ status' = OK
    /\ pc' = "done"
    /\ UNCHANGED <<is_xla, vlog_on, handle, padded_shape, shape_fn_status,
                   shape_fn_out, lookup, log_status>>

\* Source lines 147-153: not on an XLA device, the device shape is the
\* logical shape
LogicalShape ==
    /\ pc = "device"
    /\ ~is_xla
    /\ calls' = Append(calls, "TensorShapeAsVector")
    /\ LET dev_dims == TensorShapeAsVector(handle)
       IN /\ lookup' = dev_dims
          /\ status' = dev_dims.status
          /\ result' = ReturnedInfo(dev_dims)
    /\ pc' = "done"
    /\ UNCHANGED <<is_xla, vlog_on, handle, padded_shape, shape_fn_status,
                   shape_fn_out, log_status, reads>>

\* TFE_TensorHandleTensorDebugInfo: one call of TensorDebugInfo
Next ==
    \/ ResolveTensor
    \/ PaddedShapeFn
    \/ VlogShape
    \/ NormalizeTuple
    \/ ReorderDims
    \/ LogicalShape

Spec == Init /\ [][Next]_vars

\* ------------------------------------------------------------- properties

Done == pc = "done"

Ran(stage) == \E i \in DOMAIN calls : calls[i] = stage

Succeeded == Done /\ IsOk(status) /\ ~result.is_null

Count(seq, v) == Cardinality({ i \in DOMAIN seq : seq[i] = v })

\* The handle's rank lookup and every dimension lookup succeed.
LookupsSucceed(h) == IsOk(h.num_dims_status) /\ h.bad_dim = 0

\* The dimensions of the array shape s from major-most to minor-most, read
\* off its layout (rank 1: the one dimension).
MajorToMinor(s) ==
    LET R == Len(s.dimensions)
    IN [k \in 1..R |->
          IF R = 1 THEN s.dimensions[1]
          ELSE s.dimensions[s.minor_to_major[R - k + 1] + 1]]

\* The container holds exactly the sequence d.
Holds(info, d) ==
    /\ ~info.is_null
    /\ OnDeviceNumDims(info) = Len(d)
    /\ \A i \in 0..(Len(d) - 1) : OnDeviceDim(info, i) = d[i + 1]

\* Every entry the reordering read exists: no read past the end of
\* dimensions or minor_to_major.
ReadsInRange ==
    \A r \in reads :
        IF r.field = "dimensions"
        THEN r.index + 1 \in DOMAIN padded_shape.dimensions
        ELSE r.index + 1 \in DOMAIN padded_shape.minor_to_major

TypeOK ==
    /\ pc \in {"start", "device", "padded", "logged", "normalized", "done"}
    /\ is_xla \in BOOLEAN
    /\ vlog_on \in BOOLEAN
    /\ handle \in Handles
    /\ shape_fn_out \in DeviceShapes \cup {DefaultShape}
    /\ result.is_null \in BOOLEAN

\* C1 as stated: for every handle on a non-XLA device whose rank lookup and
\* every dimension lookup succeed, the call succeeds and the container holds
\* the logical shape, same order and length.
C1_AsStated ==
    (Done /\ ~is_xla /\ LookupsSucceed(handle))
        => (IsOk(status) /\ Holds(result, handle.shape))

\* C1: for every handle on a non-XLA device whose Tensor() resolution
\* succeeds and whose rank lookup and every dimension lookup succeed, the
\* call succeeds and the container holds the logical shape [d0, ..., dn-1],
\* same order and same length n.
C1_Identity ==
    (Done /\ ~is_xla /\ IsOk(Tensor(handle)) /\ LookupsSucceed(handle))
        => (IsOk(status) /\ Holds(result, handle.shape))

C1_Witness ==
    /\ Done /\ ~is_xla
    /\ IsOk(Tensor(handle)) /\ LookupsSucceed(handle)
    /\ handle.shape = <<2, 3, 4>>
    /\ result = NewInfo(<<2, 3, 4>>)

\* C2: for a flat device shape of rank R > 1 whose minor_to_major is a
\* permutation of 0..R-1 the output has length R, out[k] =
\* dims[minor_to_major[R-1-k]] (major-most first) and the same multiset of
\* sizes as dims; dims [2,3,4] with minor_to_major [0,1,2] gives [4,3,2].
C2_Reordering ==
    (Done /\ Ran("Reorder") /\ dimensions_size(padded_shape) > 1)
        => LET R == dimensions_size(padded_shape)
               dims == padded_shape.dimensions
               m2m == padded_shape.minor_to_major
               out == result.dev_dims
           IN /\ ~result.is_null
              /\ Len(out) = R
              /\ \A k \in 0..(R - 1) : out[k + 1] = dims[m2m[R - 1 - k + 1] + 1]
              /\ \A v \in DimSizes : Count(out, v) = Count(dims, v)
              /\ (dims = <<2, 3, 4>> /\ m2m = <<0, 1, 2>>) => out = <<4, 3, 2>>

C2_Witness ==
    /\ Done
    /\ shape_fn_out = MakeShape(<<2, 3, 4>>, <<0, 1, 2>>)
    /\ result = NewInfo(<<4, 3, 2>>)

\* C3: a tuple padded shape is rejected with an invalid-argument error and
\* no container when its element count is not 2; else when either element
\* is a tuple; else when the two elements are not equal.  The checks apply
\* in that order, so each rejected tuple gets exactly one of the three
\* errors.
C3_TupleRejected ==
    (Done /\ IsTuple(shape_fn_out))
        => LET s == shape_fn_out
               n == Len(s.tuple_shapes)
               nested == s.tuple_shapes[1].is_tuple \/ s.tuple_shapes[2].is_tuple
           IN /\ n # 2
                   => (status = InvalidArgument(TupleSizeMsg) /\ result.is_null)
              /\ (n = 2 /\ nested)
                   => (status = InvalidArgument(NestedTupleMsg) /\ result.is_null)
              /\ (n = 2 /\ ~nested /\ s.tuple_shapes[1] # s.tuple_shapes[2])
                   => (status = InvalidArgument(SubshapeMsg) /\ result.is_null)
              /\ ~IsOk(status) => ~Ran("Reorder")

C3_Witness ==
    /\ Done
    /\ shape_fn_out = MakeTupleShape(<<MakeShape(<<2, 3>>, <<1, 0>>),
                                       MakeShape(<<3, 2>>, <<1, 0>>)>>)
    /\ status = InvalidArgument(SubshapeMsg)
    /\ result.is_null

\* C4: a tuple of exactly two equal array shapes S gives the result of the
\* flat shape S alone, S's dimensions major to minor per S's layout; a
\* padded shape that is no tuple reaches the reordering unchanged.
C4_TupleCollapses ==
    /\ (Done /\ IsTuple(shape_fn_out)
          /\ Len(shape_fn_out.tuple_shapes) = 2
          /\ ~shape_fn_out.tuple_shapes[1].is_tuple
          /\ ~shape_fn_out.tuple_shapes[2].is_tuple
          /\ shape_fn_out.tuple_shapes[1] = shape_fn_out.tuple_shapes[2])
         => LET S == shape_fn_out.tuple_shapes[1]
            IN /\ IsOk(status)
               /\ padded_shape = S
               /\ Holds(result, MajorToMinor(S))
    /\ (pc \in {"normalized", "done"} /\ IsOk(shape_fn_status)
          /\ ~IsTuple(shape_fn_out))
         => padded_shape = shape_fn_out

C4_Witness ==
    /\ Done
    /\ shape_fn_out = MakeTupleShape(<<MakeShape(<<4, 4>>, <<1, 0>>),
                                       MakeShape(<<4, 4>>, <<1, 0>>)>>)
    /\ IsOk(status)
    /\ result = NewInfo(<<4, 4>>)

\* C5: for a device shape of rank 1 with size s the result is [s] whatever
\* the layout holds (unset, empty, any values): minor_to_major is never
\* read on the rank-1 path.
C5_RankOne ==
    (Done /\ Ran("Reorder") /\ dimensions_size(padded_shape) = 1)
        => /\ IsOk(status)
           /\ Holds(result, <<padded_shape.dimensions[1]>>)
           /\ \A r \in reads : r.field # "minor_to_major"

C5_Witness ==
    /\ Done /\ Ran("Reorder")
    /\ padded_shape = MakeShape(<<4>>, <<>>)
    /\ result = NewInfo(<<4>>)
    /\ reads = { Read("dimensions", 0) }

\* C6 as stated: every device shape of rank 0, and every rank-0 logical
\* shape on a non-XLA device, gives status OK and a container with 0
\* dimensions, and no layout or dimension entry is read.
C6_AsStated ==
    /\ (Done /\ Ran("Reorder") /\ dimensions_size(padded_shape) = 0)
         => (IsOk(status) /\ Holds(result, <<>>) /\ reads = {})
    /\ (Done /\ ~is_xla /\ LookupsSucceed(handle) /\ handle.shape = <<>>)
         => (IsOk(status) /\ Holds(result, <<>>) /\ lookup.dim_calls = 0)

\* C6: every device shape of rank 0, and every rank-0 logical shape on a
\* non-XLA device whose Tensor() resolution succeeds, gives status OK and a
\* container whose dimension count is 0; no layout or dimension entry is
\* read.
C6_RankZero ==
    /\ (Done /\ Ran("Reorder") /\ dimensions_size(padded_shape) = 0)
         => (IsOk(status) /\ Holds(result, <<>>) /\ reads = {})
    /\ (Done /\ ~is_xla /\ IsOk(Tensor(handle)) /\ LookupsSucceed(handle)
          /\ handle.shape = <<>>)
         => (IsOk(status) /\ Holds(result, <<>>) /\ lookup.dim_calls = 0)

C6_Witness ==
    /\ Done /\ Ran("Reorder")
    /\ shape_fn_out = MakeShape(<<>>, <<>>)
    /\ IsOk(status)
    /\ ~result.is_null /\ OnDeviceNumDims(result) = 0
    /\ reads = {}

\* The outcome the padded shape s alone determines: the status and the
\* value returned.
XlaOutcome(s) ==
    IF ~s.is_tuple
    THEN [status |-> OK, result |-> NewInfo(MajorToMinor(s))]
    ELSE IF Len(s.tuple_shapes) # 2
    THEN [status |-> InvalidArgument(TupleSizeMsg), result |-> NullInfo]
    ELSE IF s.tuple_shapes[1].is_tuple \/ s.tuple_shapes[2].is_tuple
    THEN [status |-> InvalidArgument(NestedTupleMsg), result |-> NullInfo]
    ELSE IF s.tuple_shapes[1] # s.tuple_shapes[2]
    THEN [status |-> InvalidArgument(SubshapeMsg), result |-> NullInfo]
    ELSE [status |-> OK, result |-> NewInfo(MajorToMinor(s.tuple_shapes[1]))]

\* C7: on the XLA path the status and the value returned are fixed by the
\* padded shape alone, the same with verbose logging off, on with the
\* logging lookup succeeding and on with it failing; a failure of the
\* logging-only lookup is replaced by a success status and never reaches
\* the caller.
C7_LoggingNeutral ==
    /\ (Done /\ IsOk(shape_fn_status))
         => (status = XlaOutcome(shape_fn_out).status
             /\ result = XlaOutcome(shape_fn_out).result
             /\ status \notin {NumDimsError, DimError})
    /\ (pc \in {"logged", "normalized"}) => IsOk(status)

C7_Witness ==
    /\ Done /\ is_xla /\ vlog_on
    /\ log_status \in {NumDimsError, DimError}
    /\ Succeeded

\* C8: the call stops at the first stage that reports a real error (Tensor
\* resolution, padded-shape function, rank lookup, a dimension lookup,
\* tuple validation): no later stage is invoked, no container is produced
\* and the status returned is that stage's error unchanged.
C8_ShortCircuit ==
    Done =>
      /\ ~IsOk(Tensor(handle))
           => (calls = <<"Tensor">> /\ result.is_null
               /\ status = Tensor(handle))
      /\ (IsOk(Tensor(handle)) /\ is_xla /\ ~IsOk(shape_fn_status))
           => (calls = <<"Tensor", "PaddedShapeFn">> /\ result.is_null
               /\ status = shape_fn_status)
      /\ (IsOk(Tensor(handle)) /\ ~is_xla /\ ~IsOk(handle.num_dims_status))
           => (calls = <<"Tensor", "TensorShapeAsVector">> /\ result.is_null
               /\ lookup.dim_calls = 0
               /\ status = handle.num_dims_status)
      /\ (IsOk(Tensor(handle)) /\ ~is_xla /\ IsOk(handle.num_dims_status)
            /\ handle.bad_dim > 0)
           => (calls = <<"Tensor", "TensorShapeAsVector">> /\ result.is_null
               /\ lookup.dim_calls = handle.bad_dim
               /\ status = DimError)
      /\ (Ran("TupleCheck") /\ ~Ran("Reorder"))
           => (calls[Len(calls)] = "TupleCheck" /\ result.is_null
               /\ status.code = "INVALID_ARGUMENT")
      /\ result.is_null => (reads = {} /\ ~Ran("Reorder"))

C8_Witness ==
    /\ Done /\ ~is_xla
    /\ IsOk(Tensor(handle))
    /\ Len(handle.shape) = 3 /\ handle.bad_dim = 2
    /\ lookup.dim_calls = 2
    /\ status = DimError
    /\ result.is_null

\* C9 as stated: TensorShapeAsVector returns an empty sequence whenever it
\* fails, on a failed rank lookup and on a failed lookup of any dimension
\* i, with the status carrying the error; on success the sequence has
\* length rank and holds the dimensions in index order.
C9_AsStated ==
    (Done /\ Ran("TensorShapeAsVector"))
        => /\ ~IsOk(lookup.status)
                => (Len(lookup.shape) = 0
                    /\ lookup.status \in {NumDimsError, DimError})
           /\ IsOk(lookup.status) => lookup.shape = handle.shape

\* C9: TensorShapeAsVector returns an empty sequence when the rank lookup
\* fails; when the lookup of dimension i fails it returns the i dimensions
\* read before it (empty only for i = 0); either way the status carries the
\* underlying error.  On success the sequence has length rank and holds the
\* dimensions in index order.
C9_PartialOnFailure ==
    (Done /\ Ran("TensorShapeAsVector"))
        => /\ ~IsOk(handle.num_dims_status)
                => (lookup.shape = <<>> /\ lookup.status = NumDimsError)
           /\ (IsOk(handle.num_dims_status) /\ handle.bad_dim > 0)
                => (lookup.shape = SubSeq(handle.shape, 1, handle.bad_dim - 1)
                    /\ Len(lookup.shape) = handle.bad_dim - 1
                    /\ lookup.status = DimError)
           /\ LookupsSucceed(handle)
                => (IsOk(lookup.status)
                    /\ Len(lookup.shape) = Len(handle.shape)
                    /\ lookup.shape = handle.shape)

C9_Witness ==
    /\ Done /\ Ran("TensorShapeAsVector")
    /\ handle.shape = <<2, 3, 4>> /\ handle.bad_dim = 3
    /\ lookup.shape = <<2, 3>>
    /\ lookup.status = DimError

\* C10: on every return path, whatever the status held on entry, a
\* container is returned exactly when the status written is OK, and the
\* status left over from before the call is always overwritten.
C10_ContainerIffOk ==
    /\ Done => (~result.is_null <=> IsOk(status))
    /\ pc # "start" => status # StaleStatus

C10_Witness ==
    /\ Done /\ ~is_xla
    /\ result.is_null
    /\ status = DimError

====
